---- MODULE Spec2Model ----
(***************************************************************************)
(* A model of src/index.js: the news backend's article ingestion           *)
(* (fetchAndSaveArticles, fetchAllCategories), the identity-provider       *)
(* webhook (POST /api/webhooks), like / unlike (POST /articles/:id/like,   *)
(* /unlike) and the search filter (GET /search), over two collections of   *)
(* the document store (Article, User).                                     *)
(*                                                                         *)
(* A collection is a sequence of documents in insertion order; a           *)
(* document's _id is its place in the sequence (nothing in index.js        *)
(* deletes an article).  Each await of a handler is one step of the        *)
(* model, so that other requests can run between two awaits.               *)
(*                                                                         *)
(* The four parts of the server share no state but the collections, and    *)
(* each has its specification: SpecIngest (and SpecIngestFair), SpecUsers, *)
(* SpecLikes, SpecSearch.  What the store library does under a call of     *)
(* index.js (the cast of a like to ObjectId, the unique indexes, what      *)
(* save() sends) is written where the call is modelled.                    *)
(***************************************************************************)
EXTENDS Integers, Sequences, FiniteSets, TLC

VARIABLES
    articles,    \* the Article collection
    users,       \* the User collection
    catIdx,      \* fetchAllCategories: index into categories of the loop
    ipc,         \* fetchAllCategories / fetchAndSaveArticles: position
    curFeed,     \* fetchAndSaveArticles: response.data.articles
    pos,         \* fetchAndSaveArticles: index of the for..of loop
    found,       \* fetchAndSaveArticles: existingArticle (0: null)
    attempted,   \* categories fetchAndSaveArticles was called with, in order
    errors,      \* categories whose error line 101 logged
    completed,   \* categories whose message line 99 logged
    escaped,     \* an error left fetchAllCategories
    lastReq,     \* the webhook payload handled last
    lastResp,    \* the webhook response sent last
    req,         \* like / unlike: the requests in flight, by slot
    started,     \* like / unlike: requests received so far
    seqRun,      \* like / unlike: the latest requests that ran alone
    tz,          \* search: the server's offset of local time from UTC, ms
    searchReq,   \* search: req.query of the search handled last
    searchRes    \* search: the response sent last

vars == <<articles, users, catIdx, ipc, curFeed, pos, found, attempted,
          errors, completed, escaped, lastReq, lastResp, req, started,
          seqRun, tz, searchReq, searchRes>>

ingestVars == <<catIdx, ipc, curFeed, pos, found, attempted, errors,
                completed, escaped>>
webhookVars == <<users, lastReq, lastResp>>
likeVars == <<req, started, seqRun>>
searchVars == <<tz, searchReq, searchRes>>

\* undefined / null of JavaScript: a field a payload or a document lacks.
Absent == "absent"

Last2(s) == IF Len(s) > 2 THEN SubSeq(s, Len(s) - 1, Len(s)) ELSE s

(***************************************************************************)
(* The User collection and POST /api/webhooks                              *)
(***************************************************************************)

\* Most users the collection is let to hold.
MaxUsers == 3

ClerkIds == {"u1", "u2"}
\* data.id of a payload: an id, the empty string, or no id at all.
PayloadIds == ClerkIds \cup {"", Absent}
FirstNames == {"A", "B"}
\* data.email_addresses: missing, an empty list, a list of one address.
EmailLists == {[present |-> FALSE, items |-> <<>>],
               [present |-> TRUE, items |-> <<>>],
               [present |-> TRUE, items |-> <<"a@b.com">>]}

PayloadData == [id : PayloadIds, first_name : FirstNames,
                last_name : {"L"}, email_addresses : EmailLists]

\* What stands in the data field of a payload that has no data.
NoData == [id |-> Absent, first_name |-> "A", last_name |-> "L",
           email_addresses |-> [present |-> FALSE, items |-> <<>>]]

\* The payloads the handler is given.  A user.deleted event carries an id.
Payloads ==
    [type : {"user.created"}, hasData : {TRUE}, data : PayloadData]
    \cup [type : {"user.deleted"}, hasData : {TRUE},
          data : {d \in PayloadData : d.id \in ClerkIds}]
    \cup [type : {"user.updated", Absent}, hasData : {TRUE}, data : PayloadData]
    \cup [type : {"user.created", "user.deleted", "user.updated", Absent},
          hasData : {FALSE}, data : {NoData}]

\* JavaScript's !x for an id: undefined and "" are falsy.
Falsy(x) == x = Absent \/ x = ""

Response(status, message) == [status |-> status, message |-> message]

HasClerkId(us, id) == \E i \in 1..Len(us) : us[i].clerkUserId = id

FirstWithClerkId(us, id) ==
    CHOOSE i \in 1..Len(us) :
        /\ us[i].clerkUserId = id
        /\ \A j \in 1..(i - 1) : us[j].clerkUserId # id

RemoveAt(s, i) == SubSeq(s, 1, i - 1) \o SubSeq(s, i + 1, Len(s))

\* new User({clerkUserId, firstName, lastName, email: primaryEmail})
NewUser(d) ==
    [clerkUserId |-> d.id, firstName |-> d.first_name,
     lastName |-> d.last_name,
     email |-> IF Len(d.email_addresses.items) > 0
               THEN d.email_addresses.items[1] ELSE Absent]

\* A save that inserts whatever it is given: the collection without its
\* unique index on clerkUserId.
UserSaveNoIndex(us, doc) == [ok |-> TRUE, users |-> Append(us, doc)]

\* user.save() of a new document: the insert is refused (E11000) when the
\* unique index on clerkUserId already holds the id.
UserSave(us, doc) ==
    IF HasClerkId(us, doc.clerkUserId)
    THEN [ok |-> FALSE, users |-> us]
    ELSE [ok |-> TRUE, users |-> Append(us, doc)]

\* User.findOneAndDelete({clerkUserId}): the first match goes, if any.
FindOneAndDelete(us, id) ==
    IF HasClerkId(us, id) THEN RemoveAt(us, FirstWithClerkId(us, id)) ELSE us

\* The handler's answer to payload p over the collection us: the response
\* and the collection it leaves.
HandleWebhook(us, p) ==
    IF p.type = "user.created"
    THEN IF ~p.hasData \/ ~p.data.email_addresses.present
         THEN \* userData.id / userData.email_addresses[0] throws TypeError
              [resp |-> Response(500, "TypeError"), users |-> us]
         ELSE IF Falsy(p.data.id)
         THEN [resp |-> Response(400, "clerkUserId is required"), users |-> us]
         ELSE LET r == UserSave(us, NewUser(p.data))
              IN  IF r.ok
                  THEN [resp |-> Response(200, "User created successfully"),
                        users |-> r.users]
                  ELSE [resp |-> Response(500, "E11000 duplicate key"),
                        users |-> us]
    ELSE IF p.type = "user.deleted"
    THEN IF ~p.hasData
         THEN [resp |-> Response(500, "TypeError"), users |-> us]
         ELSE [resp |-> Response(200, "User deleted successfully"),
               users |-> FindOneAndDelete(us, p.data.id)]
    ELSE [resp |-> Response(400, "Unknown event type"), users |-> us]

\* One delivery of a webhook event.  The handler awaits one store
\* operation, which the store applies atomically, so a delivery is one step.
Webhook ==
    \E p \in Payloads :
        LET h == HandleWebhook(users, p)
        IN  /\ Len(h.users) <= MaxUsers
            /\ users' = h.users
            /\ lastReq' = p
            /\ lastResp' = h.resp
            /\ UNCHANGED <<articles, ingestVars, likeVars, searchVars>>

(***************************************************************************)
(* The Article collection and the ingestion at startup                     *)
(***************************************************************************)

\* Most items one response of the feed holds.
MaxFeed == 2

categories == <<"general", "sports", "technology", "health", "business">>

\* title of a feed item: a title, or null (an item the feed has removed).
Titles == {"t1", "t2"}
FeedTitles == Titles \cup {Absent}

RECURSIVE SeqsUpTo(_, _)
SeqsUpTo(S, n) ==
    IF n = 0 THEN {<<>>}
    ELSE LET shorter == SeqsUpTo(S, n - 1)
         IN  shorter \cup {Append(s, x) : s \in {t \in shorter : Len(t) = n - 1},
                                          x \in S}

\* response.data.articles for a category: each item carries its title and,
\* for its other fields, a text no other item of the run carries.
FeedItems(category, titles) ==
    [i \in 1..Len(titles) |->
        [title |-> titles[i], description |-> <<category, i>>]]

\* The title lists tried: every list of up to MaxFeed titles, and one
\* longer list with an item without title between two that have one.
FeedTitleLists ==
    SeqsUpTo(FeedTitles, MaxFeed) \cup {<<"t1", Absent, "t2">>}

\* What axios.get answers for a category: a failure, or a list of items.
FeedResults(category) ==
    {[ok |-> FALSE, items |-> <<>>]}
    \cup {[ok |-> TRUE, items |-> FeedItems(category, ts)] :
            ts \in FeedTitleLists}

\* Article.findOne({title}): the _id of the first match, 0 for null.  A
\* null title matches the documents that have none.
FindOneByTitle(as, title) ==
    IF \E i \in 1..Len(as) : as[i].title = title
    THEN CHOOSE i \in 1..Len(as) :
            /\ as[i].title = title
            /\ \A j \in 1..(i - 1) : as[j].title # title
    ELSE 0

\* new Article({title, description, ..., category}): likes starts empty,
\* the version key __v at 0.
NewArticle(item, category) ==
    [title |-> item.title, description |-> item.description,
     category |-> category, likes |-> <<>>, v |-> 0]

\* newArticle.save(): validation refuses a missing title (required), the
\* unique index on title refuses a title the collection holds.
ArticleSave(as, doc) ==
    IF doc.title = Absent \/ doc.title = ""
    THEN [ok |-> FALSE, articles |-> as]
    ELSE IF \E i \in 1..Len(as) : as[i].title = doc.title
    THEN [ok |-> FALSE, articles |-> as]
    ELSE [ok |-> TRUE, articles |-> Append(as, doc)]

Category == categories[catIdx]

\* The loop of fetchAllCategories moves to the next category.
NextCategory ==
    /\ catIdx' = catIdx + 1
    /\ ipc' = IF catIdx + 1 > Len(categories) THEN "done" ELSE "fetch"
    /\ found' = 0

\* What console.error writes for a category: the category, and whether
\* the fetch or a store call threw.
Logged(category, thrownBy) == [category |-> category, thrownBy |-> thrownBy]

\* An error inside fetchAndSaveArticles that ends the whole run: what
\* fetchAllCategories would do without its try / catch.
CategoryFailedEscapes(thrownBy) ==
    /\ errors' = errors \cup {Logged(Category, thrownBy)}
    /\ escaped' = TRUE
    /\ ipc' = "done"
    /\ UNCHANGED <<catIdx, found, completed>>

\* An error inside the try of fetchAndSaveArticles: caught and rethrown
\* (lines 85-88), caught and logged by fetchAllCategories (lines 100-102),
\* whose loop goes on.
CategoryFailed(thrownBy) ==
    /\ errors' = errors \cup {Logged(Category, thrownBy)}
    /\ NextCategory
    /\ UNCHANGED <<completed, escaped>>

\* fetchAllCategories calls fetchAndSaveArticles(category), which awaits
\* axios.get.
IngestFetch ==
    /\ ipc = "fetch"
    /\ attempted' = Append(attempted, Category)
    /\ \E r \in FeedResults(Category) :
          IF r.ok
          THEN /\ curFeed' = r.items
               /\ pos' = 1
               /\ ipc' = "loop"
               /\ UNCHANGED <<catIdx, found, errors, completed, escaped>>
          ELSE CategoryFailed("fetch") /\ curFeed' = <<>> /\ pos' = 1
    /\ UNCHANGED <<articles, webhookVars, likeVars, searchVars>>

\* await Article.findOne({ title: article.title }) for the next item.
IngestLookup ==
    /\ ipc = "loop"
    /\ pos <= Len(curFeed)
    /\ found' = FindOneByTitle(articles, curFeed[pos].title)
    /\ ipc' = "found"
    /\ UNCHANGED <<articles, catIdx, curFeed, pos, attempted, errors,
                   completed, escaped, webhookVars, likeVars, searchVars>>

\* The else branch that overwrites the stored article's category with the
\* one being fetched (an upsert) instead of leaving it alone.
IngestSkipExistingUpsert ==
    /\ ipc = "found"
    /\ found # 0
    /\ articles' = [articles EXCEPT ![found].category = Category]
    /\ pos' = pos + 1
    /\ ipc' = "loop"
    /\ UNCHANGED <<catIdx, curFeed, found, attempted, errors, completed,
                   escaped, webhookVars, likeVars, searchVars>>

\* existingArticle is not null: 'Article already exists', next item.
IngestSkipExisting ==
    /\ ipc = "found"
    /\ found # 0
    /\ pos' = pos + 1
    /\ ipc' = "loop"
    /\ UNCHANGED <<articles, catIdx, curFeed, found, attempted, errors,
                   completed, escaped, webhookVars, likeVars, searchVars>>

\* A save whose failure is swallowed per item: the loop goes on with the
\* next item of the category.
IngestSaveNewContinues ==
    /\ ipc = "found"
    /\ found = 0
    /\ LET r == ArticleSave(articles, NewArticle(curFeed[pos], Category))
       IN  /\ articles' = r.articles
           /\ IF r.ok
              THEN UNCHANGED errors
              ELSE errors' = errors \cup {Logged(Category, "save")}
           /\ pos' = pos + 1
           /\ ipc' = "loop"
           /\ UNCHANGED <<catIdx, curFeed, found, completed, escaped>>
    /\ UNCHANGED <<attempted, webhookVars, likeVars, searchVars>>

\* existingArticle is null: await newArticle.save(); a failure leaves the
\* loop through the catch.
IngestSaveNew ==
    /\ ipc = "found"
    /\ found = 0
    /\ LET r == ArticleSave(articles, NewArticle(curFeed[pos], Category))
       IN  /\ articles' = r.articles
           /\ IF r.ok
              THEN /\ pos' = pos + 1
                   /\ ipc' = "loop"
                   /\ UNCHANGED <<catIdx, curFeed, found, errors, completed,
                                  escaped>>
              ELSE CategoryFailed("save") /\ UNCHANGED <<curFeed, pos>>
    /\ UNCHANGED <<attempted, webhookVars, likeVars, searchVars>>

\* The for..of loop is over: fetchAndSaveArticles returns its message,
\* fetchAllCategories logs it and goes on.
IngestReturn ==
    /\ ipc = "loop"
    /\ pos > Len(curFeed)
    /\ completed' = completed \cup {Category}
    /\ NextCategory
    /\ curFeed' = <<>>
    /\ pos' = 1
    /\ UNCHANGED <<articles, attempted, errors, escaped, webhookVars,
                   likeVars, searchVars>>

(***************************************************************************)
(* POST /articles/:id/like and POST /articles/:id/unlike                   *)
(***************************************************************************)

\* Most like / unlike requests one run receives.
MaxRequests == 3

\* The requests the server can have in flight at once.
Slots == {1, 2}

\* The ObjectIds of likes, and the 24-digit hex text toString() gives each.
ObjectIds == {1, 2}
HexOf(o) == IF o = 1 THEN "aa" ELSE "bb"

\* req.body.userId: the hex text of an ObjectId as toString() writes it,
\* the same digits in upper case, or a text that is no ObjectId.
UserIdTexts == {"aa", "AA", "bb", "user_x"}

\* Hex digits read without regard to case.
LowerCase(s) == IF s = "AA" THEN "aa" ELSE s

\* The cast of the likes array's element type (ObjectId) on a string.
IsObjectIdText(s) == \E o \in ObjectIds : HexOf(o) = LowerCase(s)
CastObjectId(s) == CHOOSE o \in ObjectIds : HexOf(o) = LowerCase(s)

\* :id of the path: article 1 is stored, article 2 is not.
ArticleIds == {1, 2}

\* article.likes.includes(userId): the string against each element, which
\* the comparison turns into its hex text.
Includes(likes, s) == \E i \in 1..Len(likes) : HexOf(likes[i]) = s

\* A filter that compares each ObjectId itself with the string: never equal.
UnlikedNoToString(likes, s) == likes

\* article.likes.filter((id) => id.toString() !== userId)
Unliked(likes, s) ==
    LET keep(o) == HexOf(o) # s
    IN  SelectSeq(likes, keep)

\* article.save() after likes.push(userId): the change is sent as a push
\* of the one element onto the stored array, and __v goes up.
SavePush(as, aid, oid) ==
    [as EXCEPT ![aid].likes = Append(@, oid), ![aid].v = @ + 1]

\* A save that writes the array it holds whatever the stored version is.
SaveSetUnguarded(as, aid, likes, v) ==
    [ok |-> TRUE,
     articles |-> [as EXCEPT ![aid].likes = likes, ![aid].v = @ + 1]]

\* article.save() after article.likes = [...]: the whole array is set, on
\* the condition that __v is still the one read; if it is not, no document
\* matches and save() throws VersionError.
SaveSet(as, aid, likes, v) ==
    IF as[aid].v = v
    THEN [ok |-> TRUE,
          articles |-> [as EXCEPT ![aid].likes = likes, ![aid].v = @ + 1]]
    ELSE [ok |-> FALSE, articles |-> as]

IdleRequest ==
    [pc |-> "idle", op |-> "like", aid |-> 1, uid |-> "aa", read |-> <<>>,
     likes |-> <<>>, v |-> 0, solo |-> FALSE, status |-> 0, count |-> 0]

Busy(r) == req[r].pc # "idle"

StoredLikes(as, aid) == IF aid \in 1..Len(as) THEN as[aid].likes ELSE <<>>

\* What a request that ran alone leaves in seqRun when it answers.
RunEntry(r, status, count, as) ==
    [op |-> req[r].op, aid |-> req[r].aid, uid |-> req[r].uid,
     status |-> status, count |-> count,
     before |-> StoredLikes(articles, req[r].aid),
     after |-> StoredLikes(as, req[r].aid)]

\* res.status(status).json(...): request r is answered, the collection
\* being as from now on.
Answer(r, status, count, as) ==
    /\ req' = [req EXCEPT ![r] = [IdleRequest EXCEPT !.op = req[r].op,
                             !.aid = req[r].aid, !.uid = req[r].uid,
                             !.solo = req[r].solo, !.status = status,
                             !.count = count]]
    /\ seqRun' = IF req[r].solo
                 THEN Last2(Append(seqRun, RunEntry(r, status, count, as)))
                 ELSE seqRun
    /\ articles' = as

\* A like or unlike request arrives.
Receive(r) ==
    /\ ~Busy(r)
    /\ started < MaxRequests
    /\ started' = started + 1
    /\ \E op \in {"like", "unlike"}, aid \in ArticleIds, uid \in UserIdTexts :
          req' = [q \in Slots |->
                    IF q = r
                    THEN [IdleRequest EXCEPT !.pc = "find", !.op = op,
                             !.aid = aid, !.uid = uid,
                             !.solo = \A o \in Slots \ {r} : ~Busy(o)]
                    ELSE IF Busy(q) THEN [req[q] EXCEPT !.solo = FALSE]
                    ELSE req[q]]
    /\ seqRun' = IF \E o \in Slots \ {r} : Busy(o) THEN <<>> ELSE seqRun
    /\ UNCHANGED <<articles, ingestVars, webhookVars, searchVars>>

\* await Article.findById(articleId), and what the handler does with the
\* document up to its next await.
Find(r) ==
    /\ req[r].pc = "find"
    /\ LET q == req[r]
           doc == articles[q.aid]
       IN  IF q.aid \notin 1..Len(articles)
           THEN Answer(r, 404, 0, articles)
           ELSE IF q.op = "like"
           THEN IF Includes(doc.likes, q.uid)
                THEN Answer(r, 200, Len(doc.likes), articles)
                ELSE IF ~IsObjectIdText(q.uid)
                THEN \* push throws CastError
                     Answer(r, 500, 0, articles)
                ELSE /\ req' = [req EXCEPT ![r].pc = "save",
                                  ![r].read = doc.likes,
                                  ![r].likes = Append(doc.likes,
                                                      CastObjectId(q.uid)),
                                  ![r].v = doc.v]
                     /\ UNCHANGED <<articles, seqRun>>
           ELSE /\ req' = [req EXCEPT ![r].pc = "save",
                             ![r].read = doc.likes,
                             ![r].likes = Unliked(doc.likes, q.uid),
                             ![r].v = doc.v]
                /\ UNCHANGED <<articles, seqRun>>
    /\ UNCHANGED <<started, ingestVars, webhookVars, searchVars>>

\* await article.save(), and the answer.
Save(r) ==
    /\ req[r].pc = "save"
    /\ LET q == req[r]
       IN  IF q.op = "like"
           THEN Answer(r, 200, Len(q.likes),
                       SavePush(articles, q.aid, CastObjectId(q.uid)))
           ELSE IF q.likes = q.read
           THEN \* nothing was modified: save() writes nothing
                Answer(r, 200, Len(q.likes), articles)
           ELSE LET w == SaveSet(articles, q.aid, q.likes, q.v)
                IN  IF w.ok
                    THEN Answer(r, 200, Len(q.likes), w.articles)
                    ELSE Answer(r, 500, 0, articles)
    /\ UNCHANGED <<started, ingestVars, webhookVars, searchVars>>

(***************************************************************************)
(* GET /search                                                             *)
(*                                                                         *)
(* A text the filter looks inside is a sequence of letters; an instant is  *)
(* a number of milliseconds, as in a Date.  Day d of the model begins at   *)
(* d * DayMs in UTC.                                                       *)
(***************************************************************************)

\* Milliseconds from 00:00:00.000 of a day to 00:00:00.000 of the next.
DayMs == 86400000

\* Most articles the collection holds when a search runs.
MaxStored == 2

\* Offsets of the server's local time from UTC: 5 hours behind, none,
\* 5 hours ahead.
TzOffsets == {0 - 18000000, 0, 18000000}

\* The instant at which local day d is ms milliseconds old.
LocalInstant(d, ms, offset) == d * DayMs + ms - offset

\* A letter without regard to case.
LowerLetter(c) == IF c = "A" THEN "a" ELSE IF c = "B" THEN "b" ELSE c
LowerText(t) == [i \in 1..Len(t) |-> LowerLetter(t[i])]

\* { $regex: pattern, $options: 'i' } for a pattern of letters: the
\* pattern occurs somewhere in the text, case set aside.
RegexI(pattern, text) ==
    \E i \in 1..(Len(text) - Len(pattern) + 1) :
        LowerText(SubSeq(text, i, i + Len(pattern) - 1)) = LowerText(pattern)

\* req.query.date: missing, "YYYY-MM-DD", "YYYY-MM-DDTHH:mm" or a text
\* that is no date.
NoDate == [form |-> "none", day |-> 1, ms |-> 0]
DateQueries ==
    {NoDate, [form |-> "invalid", day |-> 1, ms |-> 0]}
    \cup [form : {"date"}, day : {1, 2}, ms : {0}]
    \cup [form : {"datetime"}, day : {1}, ms : {36000000}]

\* new Date(date): a date alone is read as 00:00 UTC of the day, a date
\* with a time as local time.
NewDate(dq, offset) ==
    IF dq.form = "date" THEN dq.day * DayMs
    ELSE LocalInstant(dq.day, dq.ms, offset)

\* dateObj.setHours(0, 0, 0, 0): 00:00:00.000 of the local day of t.
SetHoursStart(t, offset) == ((t + offset) \div DayMs) * DayMs - offset

\* dateObj.setHours(23, 59, 59, 999): 23:59:59.999 of the local day of t.
SetHoursEnd(t, offset) == SetHoursStart(t, offset) + DayMs - 1

\* req.query.  An absent criterion is the empty text.
Queries ==
    [title : {<<>>, <<"c">>},
     country : {<<>>, <<"U">>},
     category : {<<>>, <<"s", "p">>, <<"p", "a">>},
     date : DateQueries]

\* searchCriteria.publishedAt against one document.
InDateRange(doc, dq, offset) ==
    LET dateObj == NewDate(dq, offset)
        gte == SetHoursStart(dateObj, offset)
        lt == SetHoursEnd(gte, offset)
    IN  doc.publishedAt >= gte /\ doc.publishedAt < lt

\* Article.find(searchCriteria) decides each document: every criterion
\* the query gives must hold.
Matches(doc, q, offset) ==
    /\ q.title # <<>> => RegexI(q.title, doc.title)
    /\ q.country # <<>> => RegexI(q.country, doc.country)
    /\ q.category # <<>> => RegexI(q.category, doc.category)
    /\ q.date.form # "none" => InDateRange(doc, q.date, offset)

SearchHits(as, q, offset) ==
    {i \in 1..Len(as) : Matches(as[i], q, offset)}

\* The handler: a date that is no date makes find throw (500), no hit is
\* 404, else the hits.
Search ==
    \E q \in Queries :
        /\ searchReq' = q
        /\ searchRes' =
              IF q.date.form = "invalid"
              THEN [status |-> 500, hits |-> {}]
              ELSE LET hits == SearchHits(articles, q, tz)
                   IN  [status |-> IF hits = {} THEN 404 ELSE 200,
                        hits |-> hits]
        /\ UNCHANGED <<articles, tz, ingestVars, webhookVars, likeVars>>

\* The articles a search runs over: published on the edges of local
\* days 1 and 2.
SearchArticles(offset) ==
    [title : {<<"a", "b">>},
     country : {<<"u", "s">>},
     category : {<<"s", "p">>, <<"S", "P", "A">>},
     publishedAt : {LocalInstant(1, 0, offset) - 1,
                    LocalInstant(1, 0, offset),
                    LocalInstant(1, 36000000, offset),
                    LocalInstant(1, DayMs - 1, offset),
                    LocalInstant(2, 0, offset)},
     likes : {<<>>}, v : {0}]

(***************************************************************************)
(* The state after construction, and the specifications                    *)
(***************************************************************************)

NoQuery == [title |-> <<>>, country |-> <<>>, category |-> <<>>,
            date |-> NoDate]

WebhookIdle ==
    /\ users = <<>>
    /\ lastReq = [type |-> Absent, hasData |-> FALSE, data |-> NoData]
    /\ lastResp = Response(0, "")

LikesIdle ==
    /\ req = [r \in Slots |-> IdleRequest]
    /\ started = 0
    /\ seqRun = <<>>

SearchIdle ==
    /\ tz = 0
    /\ searchReq = NoQuery
    /\ searchRes = [status |-> 0, hits |-> {}]

IngestStart ==
    /\ catIdx = 1
    /\ ipc = "fetch"
    /\ curFeed = <<>>
    /\ pos = 1
    /\ found = 0
    /\ attempted = <<>>
    /\ errors = {}
    /\ completed = {}
    /\ escaped = FALSE

IngestOver ==
    /\ catIdx = Len(categories) + 1
    /\ ipc = "done"
    /\ curFeed = <<>>
    /\ pos = 1
    /\ found = 0
    /\ attempted = categories
    /\ errors = {}
    /\ completed = {categories[i] : i \in 1..Len(categories)}
    /\ escaped = FALSE

\* An article an earlier run of the server stored, and users liked since.
EarlierArticle ==
    [title |-> "t1", description |-> <<"earlier", 0>>, category |-> "health",
     likes |-> <<1>>, v |-> 1]

\* Ingestion at startup, over an empty collection or one an earlier run left.
InitIngest ==
    /\ articles \in {<<>>, <<EarlierArticle>>}
    /\ IngestStart
    /\ WebhookIdle
    /\ LikesIdle
    /\ SearchIdle

NextIngest ==
    \/ IngestFetch
    \/ IngestLookup
    \/ IngestSkipExisting
    \/ IngestSaveNew
    \/ IngestReturn

SpecIngest == InitIngest /\ [][NextIngest]_vars

\* Ingestion at the first start of the server, the collection empty.
InitIngestFresh ==
    /\ articles = <<>>
    /\ IngestStart
    /\ WebhookIdle
    /\ LikesIdle
    /\ SearchIdle

\* fetchAllCategories is one chain of awaited calls, and the event loop
\* runs each continuation once its promise settles: a step that can be
\* taken is taken.
SpecIngestFair ==
    InitIngestFresh /\ [][NextIngest]_vars /\ WF_vars(NextIngest)

\* Webhook deliveries over an empty User collection.
InitUsers ==
    /\ articles = <<>>
    /\ IngestOver
    /\ WebhookIdle
    /\ LikesIdle
    /\ SearchIdle

NextUsers == Webhook

SpecUsers == InitUsers /\ [][NextUsers]_vars

\* Like and unlike requests on one stored article nobody likes yet.
InitLikes ==
    /\ articles = <<[title |-> "t1", description |-> <<"general", 1>>,
                     category |-> "general", likes |-> <<>>, v |-> 0]>>
    /\ IngestOver
    /\ WebhookIdle
    /\ LikesIdle
    /\ SearchIdle

NextLikes == \E r \in Slots : Receive(r) \/ Find(r) \/ Save(r)

SpecLikes == InitLikes /\ [][NextLikes]_vars

\* Searches over a collection of up to MaxStored articles.
InitSearch ==
    /\ tz \in TzOffsets
    /\ articles \in SeqsUpTo(SearchArticles(tz), MaxStored)
    /\ searchReq = NoQuery
    /\ searchRes = [status |-> 0, hits |-> {}]
    /\ IngestOver
    /\ WebhookIdle
    /\ LikesIdle

NextSearch == Search

SpecSearch == InitSearch /\ [][NextSearch]_vars

(***************************************************************************)
(* Properties of ingestion (SpecIngest, SpecIngestFair)                    *)
(***************************************************************************)

AllCategories == {categories[i] : i \in 1..Len(categories)}

TitleStored(as, title) == \E i \in 1..Len(as) : as[i].title = title

UniqueTitles ==
    \A i, j \in 1..Len(articles) :
        articles[i].title = articles[j].title => i = j

\* The item the loop of fetchAndSaveArticles is handling.
HandlingItem == ipc \in {"loop", "found"} /\ pos <= Len(curFeed)

C1_ExistingKept ==
    /\ \A i \in 1..Len(articles) :
          i <= Len(articles') /\ articles'[i] = articles[i]
    /\ (HandlingItem /\ TitleStored(articles, curFeed[pos].title))
          => articles' = articles

\* C1: in every state ingestion reaches, whatever the feed returns (the
\* same title twice in a category or in several), no two stored articles
\* share a title; no step changes a stored article (its category, its
\* other fields, its likes), and handling an item whose title is stored
\* leaves the collection as it is.
C1_TitleUniqueIngestNoOp == []UniqueTitles /\ [][C1_ExistingKept]_vars

\* C1's case: the title stored by 'general' came back twice from a later
\* category, both were skipped, and the article an earlier run left is
\* still there with its like.
C1_Witness ==
    /\ catIdx > 1
    /\ ipc = "loop"
    /\ Len(curFeed) >= 2
    /\ pos = 3
    /\ curFeed[1].title = "t2"
    /\ curFeed[2].title = "t2"
    /\ Len(articles) = 2
    /\ articles[1] = EarlierArticle
    /\ articles[2] = [title |-> "t2", description |-> <<"general", 1>>,
                      category |-> "general", likes |-> <<>>, v |-> 0]

C4_Safe ==
    /\ attempted = SubSeq(categories, 1, Len(attempted))
    /\ ~escaped
    /\ ipc = "done" =>
          /\ attempted = categories
          /\ completed \cup {e.category : e \in errors} = AllCategories
    /\ \A e \in errors : e.category \notin completed

C4_Step ==
    /\ completed' # completed =>
          \A k \in 1..Len(curFeed) : TitleStored(articles', curFeed[k].title)
    /\ \A i \in 1..Len(articles) :
          i <= Len(articles') /\ articles'[i].title = articles[i].title

\* C4: whichever categories' fetch fails, the categories are attempted
\* once each in the order general, sports, technology, health, business;
\* when a category ends without an error every title of its feed is stored
\* and stays stored; no error leaves fetchAllCategories; and the run ends.
C4_FailureIsolated == []C4_Safe /\ [][C4_Step]_vars /\ <>(ipc = "done")

\* C4's case: the fetches of general and technology failed, and the run
\* ended with articles of sports and of business stored.
C4_Witness ==
    /\ ipc = "done"
    /\ errors = {Logged("general", "fetch"), Logged("technology", "fetch")}
    /\ completed = {"sports", "health", "business"}
    /\ \E i \in 1..Len(articles) : articles[i].category = "sports"
    /\ \E i \in 1..Len(articles) : articles[i].category = "business"

\* A save of the loop fails in this step.
SaveFails ==
    /\ ipc = "found"
    /\ found = 0
    /\ Logged(Category, "save") \in errors' \ errors

C10_Step ==
    \* items are taken one by one, in the order of the feed
    /\ pos' # pos => \/ pos' = pos + 1 /\ ipc = "found" /\ ipc' = "loop"
                     \/ pos' = 1 /\ catIdx' = catIdx + 1
                     \/ pos' = 1 /\ ipc = "fetch"
    /\ (ipc = "loop" /\ ipc' = "found") =>
          found' # 0 <=> TitleStored(articles, curFeed[pos].title)
    \* a write is the save of the item just looked up, done before the
    \* next lookup
    /\ articles' # articles =>
          /\ ipc = "found" /\ ipc' = "loop" /\ pos' = pos + 1
          /\ articles' = Append(articles,
                [title |-> curFeed[pos].title,
                 description |-> curFeed[pos].description,
                 category |-> categories[catIdx], likes |-> <<>>, v |-> 0])
    \* a missing title fails the save
    /\ (ipc = "found" /\ found = 0 /\ curFeed[pos].title = Absent) => SaveFails
    \* a failed save keeps what is stored, ends the category with its
    \* error, and the next category is next
    /\ SaveFails =>
          /\ articles' = articles
          /\ catIdx' = catIdx + 1
          /\ ipc' = IF catIdx = Len(categories) THEN "done" ELSE "fetch"
          /\ categories[catIdx] \notin completed'
          /\ ~escaped'
    \* no item of a category is handled once the category has moved on
    /\ ipc' \in {"loop", "found"} => catIdx' = catIdx /\ ipc # "done"

UniqueClerkIds ==
    \A i, j \in 1..Len(users) :
        users[i].clerkUserId = users[j].clerkUserId => i = j

\* A user.created event as the identity provider sends it: data with an
\* id and a list of addresses (which may be empty).
IsUserCreated(p) ==
    /\ p.type = "user.created"
    /\ p.hasData
    /\ p.data.id \in ClerkIds
    /\ p.data.email_addresses.present

C5_Step ==
    LET p == lastReq'
        stored == \E i \in 1..Len(users) : users[i].clerkUserId = p.data.id
        email == IF p.data.email_addresses.items = <<>> THEN Absent
                 ELSE p.data.email_addresses.items[1]
    IN  IsUserCreated(p) =>
            IF stored
            THEN lastResp'.status >= 400 /\ users' = users
            ELSE /\ lastResp'.status = 200
                 /\ users' = Append(users,
                        [clerkUserId |-> p.data.id,
                         firstName |-> p.data.first_name,
                         lastName |-> p.data.last_name, email |-> email])

\* C5: after any sequence of user.created and user.deleted events no two
\* users share an external id; a user.created event for an id that is not
\* stored adds exactly that user and answers 200; one for a stored id is
\* answered with an error and adds or changes nothing.
C5_OneUserPerExternalId == []UniqueClerkIds /\ [][C5_Step]_vars

\* C5's case: the same user.created event came a second time and was
\* answered 500, the one user unchanged.
C5_Witness ==
    /\ users = <<[clerkUserId |-> "u1", firstName |-> "A", lastName |-> "L",
                  email |-> "a@b.com"]>>
    /\ lastReq = [type |-> "user.created", hasData |-> TRUE,
                  data |-> [id |-> "u1", first_name |-> "A",
                            last_name |-> "L",
                            email_addresses |->
                                [present |-> TRUE, items |-> <<"a@b.com">>]]]
    /\ lastResp.status = 500

C8_Step ==
    LET p == lastReq'
    IN  /\ (p.type = "user.created" /\ p.hasData /\ p.data.id = Absent)
              => lastResp'.status = 400 /\ users' = users
        /\ p.type \notin {"user.created", "user.deleted"}
              => lastResp'.status = 400 /\ users' = users

\* C8: a user.created payload whose data has no id is answered 400 and
\* creates no user, whatever its other fields (email_addresses missing or
\* empty); a payload of any other type than user.created and user.deleted
\* is answered 400 and changes no user.
C8_MissingIdIsBadRequest == [][C8_Step]_vars

(***************************************************************************)
(* Properties of like / unlike (SpecLikes)                                 *)
(*                                                                         *)
(* seqRun holds the latest requests that ran with no other request in      *)
(* flight, oldest first: two entries of seqRun are two consecutive         *)
(* requests that nothing interleaved with.                                 *)
(***************************************************************************)

\* The two latest requests ran alone, were op1 then op2 on the same
\* article with the same user id, and both were answered 200.
RanInTurn(op1, op2) ==
    /\ Len(seqRun) = 2
    /\ seqRun[1].op = op1
    /\ seqRun[2].op = op2
    /\ seqRun[1].aid = seqRun[2].aid
    /\ seqRun[1].uid = seqRun[2].uid
    /\ seqRun[1].status = 200
    /\ seqRun[2].status = 200

\* C2: two consecutive like requests with the same user id return the
\* same likesCount, and the second leaves the article's likes as they were.
C2_LikeIdempotent ==
    RanInTurn("like", "like") =>
        /\ seqRun[2].count = seqRun[1].count
        /\ seqRun[2].after = seqRun[2].before

\* How many entries of likes have s as their hex text.
Occurrences(likes, s) ==
    Cardinality({i \in 1..Len(likes) : HexOf(likes[i]) = s})

\* C3 as stated: like then unlike with the same user id returns the like
\* count the article had before the like, whatever the user id, already
\* in the likes or not.
C3_BackToPreLikeCount ==
    RanInTurn("like", "unlike") => seqRun[2].count = Len(seqRun[1].before)

\* s is the text toString() gives for the ObjectId it is cast to.
IsCanonical(s) == IsObjectIdText(s) /\ HexOf(CastObjectId(s)) = s

\* C3 as amended: like then unlike with the same user id s leaves the
\* likes that were there before the like, less every entry whose hex text
\* is s, plus the entry the like appended when s is not the hex text of
\* that entry.  The count is back at the count before the like exactly
\* when s was not in the likes before and is written as the hex text of
\* its ObjectId.
C3_LikeThenUnlike ==
    RanInTurn("like", "unlike") =>
        LET s == seqRun[1].uid
            pre == seqRun[1].before
            left == IF Occurrences(pre, s) = 0 /\ ~IsCanonical(s)
                    THEN 1 ELSE 0
        IN  /\ seqRun[2].count = Len(seqRun[2].after)
            /\ seqRun[2].count = Len(pre) - Occurrences(pre, s) + left
            /\ seqRun[2].count = Len(pre)
                  <=> (Occurrences(pre, s) = 0 /\ IsCanonical(s))

\* C3's case: with one other like stored, a user not yet in the likes
\* liked and unliked, and the count is back at 1.
C3_Witness ==
    /\ RanInTurn("like", "unlike")
    /\ seqRun[1].uid = "aa"
    /\ seqRun[1].before = <<2>>
    /\ seqRun[1].count = 2
    /\ seqRun[2].count = 1
    /\ articles[1].likes = <<2>>

\* Request r's save() is answered 200 in this step.
Saved(r) ==
    /\ req[r].pc = "save"
    /\ req'[r].pc = "idle"
    /\ req'[r].status = 200

\* C6 as stated: the save of a like or unlike writes the likes the request
\* holds, over whatever is stored (the last writer's document wins).
C6_LastWriterWins ==
    [][\A r \in Slots :
          (Saved(r) /\ articles' # articles)
              => articles'[req[r].aid].likes = req[r].likes]_vars

C6_Step ==
    \A aid \in 1..Len(articles) :
        LET old == articles[aid].likes
            new == articles'[aid].likes
            other(o, s) == HexOf(o) # s
        IN  \/ new = old
            \/ \E r \in Slots :
                  /\ Saved(r)
                  /\ req[r].aid = aid
                  /\ \/ /\ req[r].op = "like"
                        /\ new = Append(old, CastObjectId(req[r].uid))
                     \/ /\ req[r].op = "unlike"
                        /\ new = SelectSeq(old, LAMBDA o : other(o, req[r].uid))
                        /\ articles[aid].v = req[r].v

\* C6 as amended: like and unlike read, modify and write one document, but
\* no write loses another request's effect: a like's save appends its user
\* id to the likes as stored at that moment, and an unlike's save replaces
\* the likes only if the article was not written since the unlike read it
\* (else the unlike is answered 500 and writes nothing), so each write
\* changes the stored likes by the writer's own user id alone.
C6_NoLostUpdate == [][C6_Step]_vars

\* C6's case: with user 1 liking the article, an unlike by user 1 and a
\* like by user 2 both read before either saved; the like was answered
\* 200 and user 2 is in the likes, the unlike was answered 500.
C6_Witness ==
    \E r1, r2 \in Slots :
        /\ r1 # r2
        /\ req[r1].pc = "idle" /\ req[r2].pc = "idle"
        /\ ~req[r1].solo /\ ~req[r2].solo
        /\ req[r1].op = "unlike" /\ req[r1].uid = "aa"
        /\ req[r1].status = 500
        /\ req[r2].op = "like" /\ req[r2].uid = "bb"
        /\ req[r2].status = 200 /\ req[r2].count = 2
        /\ articles[1].likes = <<1, 2>>

\* C7: in every reachable state each article's likes holds every user id
\* at most once.
C7_NoDuplicateLikes ==
    \A aid \in 1..Len(articles) :
        \A i, j \in 1..Len(articles[aid].likes) :
            articles[aid].likes[i] = articles[aid].likes[j] => i = j

(***************************************************************************)
(* Properties of search (SpecSearch)                                       *)
(***************************************************************************)

\* The day a date criterion names.
NamedDay(dq) == dq.day

\* C9: a search with a date criterion returns exactly the articles
\* published from 00:00:00.000 to 23:59:59.999, both included, of that day
\* in server local time, that also meet the other criteria given.
C9_ClosedLocalDay ==
    searchReq.date.form \in {"date", "datetime"} =>
        searchRes.hits =
            {i \in 1..Len(articles) :
                /\ articles[i].publishedAt
                      >= LocalInstant(NamedDay(searchReq.date), 0, tz)
                /\ articles[i].publishedAt
                      <= LocalInstant(NamedDay(searchReq.date), DayMs - 1, tz)
                /\ searchReq.title # <<>>
                      => RegexI(searchReq.title, articles[i].title)
                /\ searchReq.country # <<>>
                      => RegexI(searchReq.country, articles[i].country)
                /\ searchReq.category # <<>>
                      => RegexI(searchReq.category, articles[i].category)}

====
